---- MODULE Spec2Model ----
(***************************************************************************)
(* Order execution and mock-broker bookkeeping of engine.py: TradeOrder,   *)
(* MarketOrder, LimitOrder, OrderReceipt and MockBrokerConnector.          *)
(*                                                                         *)
(* Order objects live in `orders` (the index is the object's identity,     *)
(* id(order)); the broker's ledger is cash_balance, positions and          *)
(* order_history; `receipts` holds the receipts submitOrder has returned,  *)
(* in call order.  Prices and quantities are integers, so the float        *)
(* arithmetic of the ledger is exact; timestamps are not modelled.         *)
(***************************************************************************)
EXTENDS Integers, Sequences, FiniteSets

(* ---- bounds and input sets ---- *)
MaxOrders == 1
MaxSubmits == 2

RawSymbols == {"aapl", "MSFT"}
RawSides == {"buy", "SELL", "hold"}
Quantities == {1, 2}
Prices == {99, 100, 101}

(* ---- values ---- *)
None == -1

upper(s) ==
  CASE s = "aapl" -> "AAPL"
    [] s = "msft" -> "MSFT"
    [] s = "buy" -> "BUY"
    [] s = "sell" -> "SELL"
    [] s = "hold" -> "HOLD"
    [] OTHER -> s

lower(s) ==
  CASE s = "MARKET" -> "market"
    [] s = "LIMIT" -> "limit"
    [] OTHER -> s

VARIABLES orders, limit_met, cash_balance, positions, order_history,
          current_market_price, receipts, raised,
          query, query_out, bar, bar_out, pair, threads

\* The order objects and the MockBrokerConnector the host program works with.
broker_vars == <<orders, limit_met, cash_balance, positions, order_history,
                 current_market_price, receipts, raised>>

\* The MarketDataQuery and the PriceBar of the host program; the pair of
\* brokers and the two threads of the other specifications of this module.
other_vars == <<query, query_out, bar, bar_out, pair, threads>>

vars == <<orders, limit_met, cash_balance, positions, order_history,
          current_market_price, receipts, raised,
          query, query_out, bar, bar_out, pair, threads>>

\* Nothing constructed yet, no call made yet.
Nothing == [state |-> "none"]

ledger == <<cash_balance, positions>>

(* ---- TradeOrder and its subclasses ---- *)
TradeOrder_init(cls, symbol, side, quantity, order_type, price) ==
  [cls |-> cls,
   symbol |-> upper(symbol),
   side |-> upper(side),
   quantity |-> quantity,
   order_type |-> lower(order_type),
   price |-> price,
   status |-> "pending"]

MarketOrder_init(symbol, side, quantity) ==
  TradeOrder_init("MarketOrder", symbol, side, quantity, "market", None)

LimitOrder_init(symbol, side, quantity, limit_price) ==
  TradeOrder_init("LimitOrder", symbol, side, quantity, "limit", limit_price)

\* Variant of cancel without the pending guard.
cancel_unguarded(order) ==
  [order EXCEPT !.status = "cancelled"]

cancel(order) ==
  IF order.status = "pending"
    THEN [order EXCEPT !.status = "cancelled"]
    ELSE order

\* Variant of MarketOrder.execute that fills only a pending order.
MarketOrder_execute_pending_only(order, market_price) ==
  IF order.status = "pending"
    THEN [order EXCEPT !.price = market_price, !.status = "filled"]
    ELSE order

MarketOrder_execute(order, market_price) ==
  [order EXCEPT !.price = market_price, !.status = "filled"]

\* Variant of LimitOrder.execute with strict comparisons.
LimitOrder_execute_strict(order, market_price) ==
  IF order.side = "BUY" /\ market_price < order.price
    THEN [order EXCEPT !.status = "filled"]
    ELSE IF order.side = "SELL" /\ market_price > order.price
      THEN [order EXCEPT !.status = "filled"]
      ELSE order

\* Variant of LimitOrder.execute that tests the side but not the price.
LimitOrder_execute_any_price(order, market_price) ==
  IF order.side = "BUY"
    THEN [order EXCEPT !.status = "filled"]
    ELSE IF order.side = "SELL"
      THEN [order EXCEPT !.status = "filled"]
      ELSE order

\* Variant of LimitOrder.execute that records the market price on a fill.
LimitOrder_execute_at_market(order, market_price) ==
  IF order.side = "BUY" /\ market_price <= order.price
    THEN [order EXCEPT !.price = market_price, !.status = "filled"]
    ELSE IF order.side = "SELL" /\ market_price >= order.price
      THEN [order EXCEPT !.price = market_price, !.status = "filled"]
      ELSE order

LimitOrder_execute(order, market_price) ==
  IF order.side = "BUY" /\ market_price <= order.price
    THEN [order EXCEPT !.status = "filled"]
    ELSE IF order.side = "SELL" /\ market_price >= order.price
      THEN [order EXCEPT !.status = "filled"]
      ELSE order

\* TradeOrder itself defines no execute: the call raises AttributeError.
has_execute(order) == order.cls \in {"MarketOrder", "LimitOrder"}

execute(order, market_price) ==
  IF order.cls = "MarketOrder"
    THEN MarketOrder_execute(order, market_price)
    ELSE LimitOrder_execute(order, market_price)

\* The limit of a LimitOrder is met by market_price (lines 142 and 144).
LimitMet(order, market_price) ==
  /\ order.cls = "LimitOrder"
  /\ \/ order.side = "BUY" /\ market_price <= order.price
     \/ order.side = "SELL" /\ market_price >= order.price

(* ---- OrderReceipt ---- *)
OrderReceipt_init(symbol, side, order_id, order, executed_price, executed_quantity, status) ==
  [order_id |-> order_id,
   symbol |-> upper(symbol),
   side |-> upper(side),
   original_quantity |-> order.quantity,
   executed_quantity |-> executed_quantity,
   executed_price |-> executed_price,
   status |-> status]

(* ---- MockBrokerConnector ---- *)
positions_get(pos, symbol, default) ==
  IF symbol \in DOMAIN pos THEN pos[symbol] ELSE default

\* Variant of the dictionary store that drops a key whose value is 0.
positions_set_pruned(pos, symbol, value) ==
  [s \in IF value = 0 THEN (DOMAIN pos) \ {symbol}
                      ELSE (DOMAIN pos) \cup {symbol} |->
     IF s = symbol THEN value ELSE pos[s]]

positions_set(pos, symbol, value) ==
  [s \in (DOMAIN pos) \cup {symbol} |-> IF s = symbol THEN value ELSE pos[s]]

\* Variant of the cash update in which a SELL is charged like a BUY.
submitOrder_cash_sell_charged(cash, order) ==
  IF order.status = "filled"
    THEN IF order.side = "BUY"
      THEN cash - order.price * order.quantity
      ELSE IF order.side = "SELL"
        THEN cash - order.price * order.quantity
        ELSE cash
    ELSE cash

\* Variant of the cash update that forgets the quantity.
submitOrder_cash_unit_price(cash, order) ==
  IF order.status = "filled"
    THEN IF order.side = "BUY"
      THEN cash - order.price
      ELSE IF order.side = "SELL"
        THEN cash + order.price
        ELSE cash
    ELSE cash

\* cash_balance after the ledger step of submitOrder for the executed order.
submitOrder_cash(cash, order) ==
  IF order.status = "filled"
    THEN IF order.side = "BUY"
      THEN cash - order.price * order.quantity
      ELSE IF order.side = "SELL"
        THEN cash + order.price * order.quantity
        ELSE cash
    ELSE cash

\* Variant of the position update that books the cost, not the quantity.
submitOrder_positions_by_cost(pos, order) ==
  IF order.status = "filled"
    THEN IF order.side = "BUY"
      THEN positions_set(pos, order.symbol,
                         positions_get(pos, order.symbol, 0)
                           + order.price * order.quantity)
      ELSE IF order.side = "SELL"
        THEN positions_set(pos, order.symbol,
                           positions_get(pos, order.symbol, 0)
                             - order.price * order.quantity)
        ELSE pos
    ELSE pos

\* positions after the ledger step of submitOrder for the executed order.
submitOrder_positions(pos, order) ==
  IF order.status = "filled"
    THEN IF order.side = "BUY"
      THEN positions_set(pos, order.symbol,
                         positions_get(pos, order.symbol, 0) + order.quantity)
      ELSE IF order.side = "SELL"
        THEN positions_set(pos, order.symbol,
                           positions_get(pos, order.symbol, 0) - order.quantity)
        ELSE pos
    ELSE pos

\* Variant of the receipt that reports price and quantity whatever the status.
submitOrder_receipt_unconditional(order_id, order) ==
  OrderReceipt_init(order.symbol, order.side, order_id, order,
                    order.price, order.quantity, order.status)

submitOrder_receipt(order_id, order) ==
  OrderReceipt_init(order.symbol, order.side, order_id, order,
                    IF order.status = "filled" THEN order.price ELSE None,
                    IF order.status = "filled" THEN order.quantity ELSE 0,
                    order.status)

getAccountInfo ==
  [cash_balance |-> cash_balance,
   positions |-> positions,
   order_history |-> order_history]

(* ---- state machine ---- *)
OrderIds == 1..Len(orders)

\* A fresh MockBrokerConnector and no order object.
BrokerFresh ==
  /\ orders = <<>>
  /\ limit_met = <<>>
  /\ cash_balance = 100000
  /\ positions = <<>>
  /\ order_history = <<>>
  /\ current_market_price = 100
  /\ receipts = <<>>
  /\ raised = FALSE

Init ==
  /\ BrokerFresh
  /\ query = Nothing /\ query_out = Nothing
  /\ bar = Nothing /\ bar_out = Nothing
  /\ pair = Nothing
  /\ threads = Nothing

Construct(order) ==
  /\ Len(orders) < MaxOrders
  /\ orders' = Append(orders, order)
  /\ limit_met' = Append(limit_met, FALSE)
  /\ raised' = FALSE
  /\ UNCHANGED <<cash_balance, positions, order_history,
                 current_market_price, receipts>>
  /\ UNCHANGED other_vars

NewTradeOrder ==
  \E symbol \in RawSymbols, side \in RawSides, quantity \in Quantities :
    Construct(TradeOrder_init("TradeOrder", symbol, side, quantity,
                              "market", None))

NewMarketOrder ==
  \E symbol \in RawSymbols, side \in RawSides, quantity \in Quantities :
    Construct(MarketOrder_init(symbol, side, quantity))

NewLimitOrder ==
  \E symbol \in RawSymbols, side \in RawSides, quantity \in Quantities,
     limit_price \in Prices :
    Construct(LimitOrder_init(symbol, side, quantity, limit_price))

\* Variant of cancel() for receipts that keep a live reference to the order:
\* the status of every receipt of the order follows the order.
Cancel_live_receipts(o) ==
  /\ orders' = [orders EXCEPT ![o] = cancel(orders[o])]
  /\ receipts' = [i \in 1..Len(receipts) |->
                    IF receipts[i].order_id = o
                      THEN [receipts[i] EXCEPT !.status = cancel(orders[o]).status]
                      ELSE receipts[i]]
  /\ raised' = FALSE
  /\ UNCHANGED <<limit_met, cash_balance, positions, order_history,
                 current_market_price>>
  /\ UNCHANGED other_vars

\* order.cancel() called by the host program.
Cancel(o) ==
  /\ orders' = [orders EXCEPT ![o] = cancel(orders[o])]
  /\ raised' = FALSE
  /\ UNCHANGED <<limit_met, cash_balance, positions, order_history,
                 current_market_price, receipts>>
  /\ UNCHANGED other_vars

\* order.execute(p) called by the host program on a Market- or LimitOrder.
Execute(o, p) ==
  /\ has_execute(orders[o])
  /\ orders' = [orders EXCEPT ![o] = execute(orders[o], p)]
  /\ limit_met' = [limit_met EXCEPT ![o] = @ \/ LimitMet(orders[o], p)]
  /\ raised' = FALSE
  /\ UNCHANGED <<cash_balance, positions, order_history,
                 current_market_price, receipts>>
  /\ UNCHANGED other_vars

\* order.execute(p) on a plain TradeOrder: AttributeError, nothing changes.
ExecuteRaises(o) ==
  /\ ~has_execute(orders[o])
  /\ raised' = TRUE
  /\ UNCHANGED <<orders, limit_met, cash_balance, positions, order_history,
                 current_market_price, receipts>>
  /\ UNCHANGED other_vars

\* broker.submitOrder(order) for a Market- or LimitOrder.
SubmitOrder(o) ==
  /\ has_execute(orders[o])
  /\ Len(order_history) < MaxSubmits
  /\ LET order == execute(orders[o], current_market_price) IN
       /\ orders' = [orders EXCEPT ![o] = order]
       /\ limit_met' = [limit_met EXCEPT
                          ![o] = @ \/ LimitMet(orders[o], current_market_price)]
       /\ order_history' = Append(order_history, o)
       /\ cash_balance' = submitOrder_cash(cash_balance, order)
       /\ positions' = submitOrder_positions(positions, order)
       /\ receipts' = Append(receipts, submitOrder_receipt(o, order))
  /\ raised' = FALSE
  /\ UNCHANGED current_market_price
  /\ UNCHANGED other_vars

\* broker.submitOrder(order) for a plain TradeOrder: line 192 raises before
\* the order is appended or the ledger is read.
SubmitOrderRaises(o) ==
  /\ ~has_execute(orders[o])
  /\ raised' = TRUE
  /\ UNCHANGED <<orders, limit_met, cash_balance, positions, order_history,
                 current_market_price, receipts>>
  /\ UNCHANGED other_vars

Next ==
  \/ NewTradeOrder
  \/ NewMarketOrder
  \/ NewLimitOrder
  \/ \E o \in OrderIds : Cancel(o)
  \/ \E o \in OrderIds, p \in Prices : Execute(o, p)
  \/ \E o \in OrderIds : ExecuteRaises(o)
  \/ \E o \in OrderIds : SubmitOrder(o)
  \/ \E o \in OrderIds : SubmitOrderRaises(o)

Spec == Init /\ [][Next]_vars

(* ---- a desk that only submits ---- *)
MaxFresh == 2

\* MarketOrder(symbol, side, quantity) with side BUY or SELL, while fewer
\* than MaxFresh orders exist.
NewMarketOrderBuySell ==
  /\ Len(orders) < MaxFresh
  /\ \E symbol \in RawSymbols, side \in {"buy", "SELL"},
        quantity \in Quantities :
       orders' = Append(orders, MarketOrder_init(symbol, side, quantity))
  /\ limit_met' = Append(limit_met, FALSE)
  /\ raised' = FALSE
  /\ UNCHANGED <<cash_balance, positions, order_history,
                 current_market_price, receipts>>
  /\ UNCHANGED other_vars

\* broker.submitOrder(order) for an order that was never executed,
\* cancelled or submitted before.
SubmitFresh(o) ==
  /\ orders[o].status = "pending"
  /\ \A i \in 1..Len(order_history) : order_history[i] # o
  /\ SubmitOrder(o)

NextMarket ==
  \/ NewMarketOrderBuySell
  \/ \E o \in OrderIds : SubmitFresh(o)

\* Distinct, previously unexecuted BUY and SELL MarketOrders are submitted
\* to a fresh broker.
SpecMarket == Init /\ [][NextMarket]_vars

DeskQuantities == {2}
DeskLimits == {99, 101}

\* MarketOrder(symbol, side, quantity) or LimitOrder(symbol, side, quantity,
\* limit_price), while fewer than MaxFresh orders exist.
NewDeskOrder ==
  /\ Len(orders) < MaxFresh
  /\ \E symbol \in RawSymbols, side \in RawSides, quantity \in DeskQuantities :
       \/ orders' = Append(orders, MarketOrder_init(symbol, side, quantity))
       \/ \E limit_price \in DeskLimits :
            orders' = Append(orders,
                             LimitOrder_init(symbol, side, quantity, limit_price))
  /\ limit_met' = Append(limit_met, FALSE)
  /\ raised' = FALSE
  /\ UNCHANGED <<cash_balance, positions, order_history,
                 current_market_price, receipts>>
  /\ UNCHANGED other_vars

NextDesk ==
  \/ NewDeskOrder
  \/ \E o \in OrderIds : SubmitOrder(o)

\* A fresh broker that receives nothing but submitOrder calls, repeated
\* submissions of one order included.
SpecDesk == Init /\ [][NextDesk]_vars

(* ---- two brokers that receive equal orders ---- *)
UNCHANGED_but_pair == UNCHANGED <<query, query_out, bar, bar_out, threads>>

\* The fields a MockBrokerConnector has after __init__.
MockBrokerConnector_init ==
  [cash_balance |-> 100000, positions |-> <<>>, current_market_price |-> 100]

\* Ledgers the host program assigns to the second broker, as the test of
\* getAccountInfo assigns cash_balance.
HostLedgers ==
  {[cash_balance |-> 0, positions |-> positions_set(<<>>, "AAPL", 1)],
   [cash_balance |-> 50, positions |-> positions_set(<<>>, "MSFT", 1)]}

\* Variant of submitOrder that rejects a BUY the cash cannot pay.
broker_submitOrder_funds_checked(broker, order_id, order) ==
  LET executed == execute(order, broker.current_market_price)
      rejected == [order EXCEPT !.status = "rejected"]
  IN IF /\ executed.status = "filled"
        /\ executed.side = "BUY"
        /\ executed.price * executed.quantity > broker.cash_balance
       THEN [broker |-> broker,
             order |-> rejected,
             receipt |-> submitOrder_receipt(order_id, rejected)]
       ELSE [broker |-> [broker EXCEPT
                           !.cash_balance = submitOrder_cash(@, executed),
                           !.positions = submitOrder_positions(@, executed)],
             order |-> executed,
             receipt |-> submitOrder_receipt(order_id, executed)]

\* submitOrder on a broker given as a value: the broker and the order after
\* the call, and the receipt returned.
broker_submitOrder(broker, order_id, order) ==
  LET executed == execute(order, broker.current_market_price)
  IN [broker |-> [broker EXCEPT
                    !.cash_balance = submitOrder_cash(@, executed),
                    !.positions = submitOrder_positions(@, executed)],
      order |-> executed,
      receipt |-> submitOrder_receipt(order_id, executed)]

\* Two brokers are constructed; the host overwrites the ledger of B.
NewBrokerPair ==
  /\ pair.state = "none"
  /\ \E l \in HostLedgers :
       pair' = [state |-> "pair",
                A |-> MockBrokerConnector_init,
                B |-> [MockBrokerConnector_init EXCEPT
                         !.cash_balance = l.cash_balance,
                         !.positions = l.positions],
                order |-> [state |-> "none"],
                last |-> [state |-> "none"],
                n |-> 0]
  /\ UNCHANGED_but_pair
  /\ UNCHANGED broker_vars

\* The host constructs two equal orders, one for each broker, and drops the
\* receipts of the orders before.
PairNewOrder ==
  /\ pair.state = "pair"
  /\ pair.n < MaxSubmits
  /\ \E symbol \in RawSymbols, side \in RawSides, quantity \in DeskQuantities :
       \E order \in {MarketOrder_init(symbol, side, quantity)} \cup
                    {LimitOrder_init(symbol, side, quantity, limit_price) :
                       limit_price \in DeskLimits} :
         pair' = [pair EXCEPT
                    !.order = [state |-> "made", a |-> order, b |-> order],
                    !.last = [state |-> "none"]]
  /\ UNCHANGED_but_pair
  /\ UNCHANGED broker_vars

\* cancel() on both orders.
PairCancel ==
  /\ pair.state = "pair"
  /\ pair.order.state = "made"
  /\ pair' = [pair EXCEPT !.order.a = cancel(@), !.order.b = cancel(@)]
  /\ UNCHANGED_but_pair
  /\ UNCHANGED broker_vars

\* execute(p) on both orders, with the same p.
PairExecute ==
  /\ pair.state = "pair"
  /\ pair.order.state = "made"
  /\ \E p \in Prices :
       pair' = [pair EXCEPT !.order.a = execute(@, p), !.order.b = execute(@, p)]
  /\ UNCHANGED_but_pair
  /\ UNCHANGED broker_vars

\* A.submitOrder(a) and B.submitOrder(b).
PairSubmit ==
  /\ pair.state = "pair"
  /\ pair.order.state = "made"
  /\ pair.n < MaxSubmits
  /\ LET ra == broker_submitOrder(pair.A, 1, pair.order.a)
         rb == broker_submitOrder(pair.B, 2, pair.order.b)
     IN pair' = [pair EXCEPT
                   !.A = ra.broker,
                   !.B = rb.broker,
                   !.order = [state |-> "made", a |-> ra.order, b |-> rb.order],
                   !.last = [state |-> "returned",
                             a |-> ra.receipt, b |-> rb.receipt],
                   !.n = @ + 1]
  /\ UNCHANGED_but_pair
  /\ UNCHANGED broker_vars

NextPair ==
  \/ NewBrokerPair
  \/ PairNewOrder
  \/ PairCancel
  \/ PairExecute
  \/ PairSubmit

SpecPair == Init /\ [][NextPair]_vars

(* ---- two threads of a host that call submitOrder ---- *)
\* Each thread t submits its own MarketOrder, orders[t], to the one broker.
\* A thread can be suspended between any two of the loads and stores that
\* lines 192 to 203 perform on the broker; threads.tmp[t] is the value the
\* thread has loaded and not yet stored back.
Threads == {1, 2}

UNCHANGED_but_threads == UNCHANGED <<query, query_out, bar, bar_out, pair>>

StartThreads ==
  /\ threads.state = "none"
  /\ \E s1 \in RawSymbols, s2 \in RawSymbols,
        d1 \in RawSides, d2 \in RawSides,
        q1 \in Quantities, q2 \in Quantities :
       orders' = <<MarketOrder_init(s1, d1, q1), MarketOrder_init(s2, d2, q2)>>
  /\ limit_met' = <<FALSE, FALSE>>
  /\ threads' = [state |-> "running",
                 pc |-> <<"execute", "execute">>,
                 tmp |-> <<0, 0>>,
                 stale |-> FALSE]
  /\ UNCHANGED <<cash_balance, positions, order_history,
                 current_market_price, receipts, raised>>
  /\ UNCHANGED_but_threads

\* line 192
ThreadExecute(t) ==
  /\ threads.state = "running"
  /\ threads.pc[t] = "execute"
  /\ orders' = [orders EXCEPT ![t] = execute(@, current_market_price)]
  /\ threads' = [threads EXCEPT !.pc[t] = "append"]
  /\ UNCHANGED <<limit_met, cash_balance, positions, order_history,
                 current_market_price, receipts, raised>>
  /\ UNCHANGED_but_threads

\* line 193, and the tests of lines 195, 196 and 200 on the thread's order
ThreadAppend(t) ==
  /\ threads.state = "running"
  /\ threads.pc[t] = "append"
  /\ order_history' = Append(order_history, t)
  /\ threads' = [threads EXCEPT !.pc[t] =
                   IF orders[t].status = "filled"
                      /\ orders[t].side \in {"BUY", "SELL"}
                     THEN "load_cash" ELSE "receipt"]
  /\ UNCHANGED <<orders, limit_met, cash_balance, positions,
                 current_market_price, receipts, raised>>
  /\ UNCHANGED_but_threads

\* the load of self.cash_balance in line 198 or 202
ThreadLoadCash(t) ==
  /\ threads.state = "running"
  /\ threads.pc[t] = "load_cash"
  /\ threads' = [threads EXCEPT !.pc[t] = "store_cash", !.tmp[t] = cash_balance]
  /\ UNCHANGED broker_vars
  /\ UNCHANGED_but_threads

\* Variant of the store that computes from the field as it is now.
ThreadStoreCash_atomic(t) ==
  /\ threads.state = "running"
  /\ threads.pc[t] = "store_cash"
  /\ cash_balance' = submitOrder_cash(cash_balance, orders[t])
  /\ threads' = [threads EXCEPT
                   !.pc[t] = "load_position",
                   !.stale = @ \/ cash_balance # threads.tmp[t]]
  /\ UNCHANGED <<orders, limit_met, positions, order_history,
                 current_market_price, receipts, raised>>
  /\ UNCHANGED_but_threads

\* the store to self.cash_balance in line 198 or 202; threads.stale records
\* that the field changed between this thread's load and its store
ThreadStoreCash(t) ==
  /\ threads.state = "running"
  /\ threads.pc[t] = "store_cash"
  /\ cash_balance' = submitOrder_cash(threads.tmp[t], orders[t])
  /\ threads' = [threads EXCEPT
                   !.pc[t] = "load_position",
                   !.stale = @ \/ cash_balance # threads.tmp[t]]
  /\ UNCHANGED <<orders, limit_met, positions, order_history,
                 current_market_price, receipts, raised>>
  /\ UNCHANGED_but_threads

\* self.positions.get(order.symbol, 0) in line 199 or 203
ThreadLoadPosition(t) ==
  /\ threads.state = "running"
  /\ threads.pc[t] = "load_position"
  /\ threads' = [threads EXCEPT
                   !.pc[t] = "store_position",
                   !.tmp[t] = positions_get(positions, orders[t].symbol, 0)]
  /\ UNCHANGED broker_vars
  /\ UNCHANGED_but_threads

\* the store to self.positions[order.symbol] in line 199 or 203
ThreadStorePosition(t) ==
  /\ threads.state = "running"
  /\ threads.pc[t] = "store_position"
  /\ positions' =
       positions_set(positions, orders[t].symbol,
                     IF orders[t].side = "BUY"
                       THEN threads.tmp[t] + orders[t].quantity
                       ELSE threads.tmp[t] - orders[t].quantity)
  /\ threads' = [threads EXCEPT
                   !.pc[t] = "receipt",
                   !.stale = @ \/ positions_get(positions, orders[t].symbol, 0)
                                    # threads.tmp[t]]
  /\ UNCHANGED <<orders, limit_met, cash_balance, order_history,
                 current_market_price, receipts, raised>>
  /\ UNCHANGED_but_threads

\* lines 206 to 215
ThreadReceipt(t) ==
  /\ threads.state = "running"
  /\ threads.pc[t] = "receipt"
  /\ receipts' = Append(receipts, submitOrder_receipt(t, orders[t]))
  /\ threads' = [threads EXCEPT !.pc[t] = "done"]
  /\ UNCHANGED <<orders, limit_met, cash_balance, positions, order_history,
                 current_market_price, raised>>
  /\ UNCHANGED_but_threads

NextThreads ==
  \/ StartThreads
  \/ \E t \in Threads : ThreadExecute(t)
  \/ \E t \in Threads : ThreadAppend(t)
  \/ \E t \in Threads : ThreadLoadCash(t)
  \/ \E t \in Threads : ThreadStoreCash(t)
  \/ \E t \in Threads : ThreadLoadPosition(t)
  \/ \E t \in Threads : ThreadStorePosition(t)
  \/ \E t \in Threads : ThreadReceipt(t)

SpecThreads == Init /\ [][NextThreads]_vars

(* ---- MarketDataQuery ---- *)
\* Inputs of the constructor.  2023-01-01 and 2023-01-08 are Sundays;
\* "2023-13-01" does not parse with '%Y-%m-%d'.
DateStrings == {"2023-01-01", "2023-01-02", "2023-01-05", "2023-01-08",
                "2023-13-01"}
Frequencies == {"1m", "2m", "5m", "15m", "30m", "60m", "90m", "1h", "1d",
                "5d", "1wk", "1mo", "3mo", "yearly", "1D"}
Sources == {"test", "yahoo", "bloomberg"}

NoDate == [year |-> 0, month |-> 0, day |-> 0]

\* datetime.datetime.strptime(s, '%Y-%m-%d'): the datetime at midnight, or
\* NoDate where strptime raises ValueError.
strptime(s) ==
  CASE s = "2023-01-01" -> [year |-> 2023, month |-> 1, day |-> 1]
    [] s = "2023-01-02" -> [year |-> 2023, month |-> 1, day |-> 2]
    [] s = "2023-01-05" -> [year |-> 2023, month |-> 1, day |-> 5]
    [] s = "2023-01-08" -> [year |-> 2023, month |-> 1, day |-> 8]
    [] s = "2023-01-31" -> [year |-> 2023, month |-> 1, day |-> 31]
    [] s = "2023-02-01" -> [year |-> 2023, month |-> 2, day |-> 1]
    [] OTHER -> NoDate

\* datetime comparison: a > b.
datetime_gt(a, b) ==
  \/ a.year > b.year
  \/ a.year = b.year /\ a.month > b.month
  \/ a.year = b.year /\ a.month = b.month /\ a.day > b.day

valid_frequencies == {"1m", "2m", "5m", "15m", "30m", "60m", "90m", "1h",
                      "1d", "5d", "1wk", "1mo", "3mo"}

\* Variant of _validate that also rejects start_date = end_date.
MarketDataQuery_validate_strict(start_date, end_date, frequency) ==
  IF ~datetime_gt(end_date, start_date)
    THEN "Start date must be before end date"
    ELSE IF frequency \notin valid_frequencies
      THEN "Frequency must be one of"
      ELSE "ok"

\* _validate: the message of the ValueError it raises, or "ok".
MarketDataQuery_validate(start_date, end_date, frequency) ==
  IF datetime_gt(start_date, end_date)
    THEN "Start date must be before end date"
    ELSE IF frequency \notin valid_frequencies
      THEN "Frequency must be one of"
      ELSE "ok"

\* __init__: the object, and the message of the ValueError raised ("ok"
\* when none): strptime of start_date, then of end_date, then _validate.
MarketDataQuery_init(symbol, time_frame, start_date, end_date, frequency, source) ==
  LET start == strptime(start_date)
      end == strptime(end_date)
      self == [symbol |-> symbol, time_frame |-> time_frame,
               start_date |-> start, end_date |-> end,
               frequency |-> frequency, source |-> source]
  IN IF start = NoDate \/ end = NoDate
       THEN [raised |-> "does not match format", self |-> self]
       ELSE [raised |-> MarketDataQuery_validate(start, end, frequency),
             self |-> self]

\* Days of 2023 before each month, and the day number of a datetime counted
\* from 2023-01-01.
DaysBeforeMonth == <<0, 31, 59, 90, 120, 151, 181, 212, 243, 273, 304, 334>>

toordinal(dt) == 365 * (dt.year - 2023) + DaysBeforeMonth[dt.month] + dt.day - 1

\* Length in minutes of the fixed-step pandas aliases of freq_map.
tick_minutes(pd_freq) ==
  CASE pd_freq = "T" -> 1
    [] pd_freq = "2T" -> 2
    [] pd_freq = "5T" -> 5
    [] pd_freq = "15T" -> 15
    [] pd_freq = "30T" -> 30
    [] pd_freq = "60T" -> 60
    [] pd_freq = "90T" -> 90
    [] pd_freq = "H" -> 60
    [] pd_freq = "D" -> 1440
    [] pd_freq = "5D" -> 7200
    [] OTHER -> 0

freq_map(frequency) ==
  CASE frequency = "1m" -> "T"
    [] frequency = "2m" -> "2T"
    [] frequency = "5m" -> "5T"
    [] frequency = "15m" -> "15T"
    [] frequency = "30m" -> "30T"
    [] frequency = "60m" -> "60T"
    [] frequency = "90m" -> "90T"
    [] frequency = "1h" -> "H"
    [] frequency = "1d" -> "D"
    [] frequency = "5d" -> "5D"
    [] frequency = "1wk" -> "W"
    [] frequency = "1mo" -> "MS"
    [] frequency = "3mo" -> "3MS"
    [] OTHER -> "None"

\* Month starts of 2023 and January 2024 as day numbers.
month_starts == <<0, 31, 59, 90, 120, 151, 181, 212, 243, 273, 304, 334, 365>>

\* pd.date_range(start, end, freq) for midnight datetimes: the timestamps,
\* in minutes from 2023-01-01 00:00.  A fixed step counts from start; 'W'
\* is every Sunday, 'MS' every first of a month, '3MS' every third month
\* start from the first one at or after start.
date_range(start, end, pd_freq) ==
  LET s == toordinal(start)
      e == toordinal(end)
  IN IF pd_freq = "W"
       THEN LET first == s + ((7 - (s % 7)) % 7)
                n == IF first > e THEN 0 ELSE (e - first) \div 7 + 1
            IN [i \in 1..n |-> 1440 * (first + 7 * (i - 1))]
     ELSE IF pd_freq \in {"MS", "3MS"}
       THEN LET step == IF pd_freq = "MS" THEN 1 ELSE 3
                from == {k \in 1..Len(month_starts) : month_starts[k] >= s}
                k0 == IF from = {} THEN Len(month_starts) + 1
                      ELSE CHOOSE k \in from : \A j \in from : k <= j
                hits == {k \in 1..Len(month_starts) :
                           /\ k >= k0 /\ (k - k0) % step = 0
                           /\ month_starts[k] <= e}
            IN [i \in 1..Cardinality(hits) |->
                  1440 * month_starts[k0 + step * (i - 1)]]
     ELSE LET step == tick_minutes(pd_freq)
              n == IF s > e THEN 0 ELSE (1440 * (e - s)) \div step + 1
          IN [i \in 1..n |-> 1440 * s + step * (i - 1)]

\* Variant of the test source without the fallback to start_date.
fetch_test_no_fallback(self) ==
  LET dates == date_range(self.start_date, self.end_date,
                          freq_map(self.frequency))
  IN [raised |-> "ok",
      df |-> [i \in 1..Len(dates) |->
                [date |-> dates[i], price2 |-> 200 + (i - 1)]]]

\* fetch() with source 'test': the table, one row per date; price2 is twice
\* the price (100 + i*0.5 for i = 0, 1, ...), so that it is an integer.
fetch_test(self) ==
  LET pd_freq == freq_map(self.frequency)
      ranged == date_range(self.start_date, self.end_date, pd_freq)
      dates == IF Len(ranged) = 0
                    /\ ~datetime_gt(self.start_date, self.end_date)
                 THEN <<1440 * toordinal(self.start_date)>>
                 ELSE ranged
  IN IF pd_freq = "None"
       THEN [raised |-> "Test source does not support frequency", df |-> <<>>]
       ELSE [raised |-> "ok",
             df |-> [i \in 1..Len(dates) |->
                       [date |-> dates[i], price2 |-> 200 + (i - 1)]]]

\* fetch(): the table and the message of the exception raised ("ok" when
\* none).  With source 'yahoo' the call either finds yfinance missing or
\* returns what the external provider yields, of which nothing is known.
fetch(self, yf_installed) ==
  IF self.source = "test" THEN fetch_test(self)
  ELSE IF self.source = "yahoo"
    THEN IF ~yf_installed
      THEN [raised |-> "yfinance is not installed", df |-> <<>>]
      ELSE [raised |-> "ok", df |-> <<>>, provider |-> TRUE]
    ELSE [raised |-> "Unknown source", df |-> <<>>]

\* MarketDataQuery(symbol, time_frame, start_date, end_date, frequency,
\* source): on an exception no object exists.  One query object is
\* followed: query objects share no state.
NewQuery ==
  /\ query_out.state = "none"
  /\ \E start_date \in DateStrings, end_date \in DateStrings,
     frequency \in Frequencies, source \in Sources :
       LET made == MarketDataQuery_init("TEST", "D1", start_date, end_date,
                                        frequency, source)
       IN /\ query' = IF made.raised = "ok"
                        THEN [state |-> "constructed", self |-> made.self]
                        ELSE Nothing
          /\ query_out' = [state |-> "init",
                           args |-> [start_date |-> start_date,
                                     end_date |-> end_date,
                                     frequency |-> frequency,
                                     source |-> source],
                           raised |-> made.raised]
  /\ UNCHANGED <<bar, bar_out, pair, threads>>
  /\ UNCHANGED broker_vars

\* query.fetch()
Fetch ==
  /\ query.state = "constructed"
  /\ \E yf_installed \in BOOLEAN :
       query_out' = [state |-> "fetch",
                     result |-> fetch(query.self, yf_installed)]
  /\ UNCHANGED <<query, bar, bar_out, pair, threads>>
  /\ UNCHANGED broker_vars

NextQuery ==
  \/ NewQuery
  \/ Fetch

SpecQuery == Init /\ [][NextQuery]_vars

(* ---- PriceBar ---- *)
BarPrices == {0 - 5, 0, 95, 100}
BarRanges == {95, 115}

PriceBar_init(date, open_price, close_price, high_price, low_price, volume) ==
  [date |-> date,
   open |-> open_price,
   close |-> close_price,
   high |-> high_price,
   low |-> low_price,
   volume |-> volume]

\* Variant of is_bullish that counts an unchanged price as bullish.
is_bullish_or_flat(self) == self.open <= self.close

is_bullish(self) == self.open < self.close

is_bearish(self) == self.open > self.close

\* PriceBar(date, open, close, high, low, volume); the results of the
\* calls made on the previous bar are dropped.
NewPriceBar ==
  /\ \E open_price \in BarPrices, close_price \in BarPrices,
        high_price \in BarRanges, low_price \in BarRanges :
       bar' = [state |-> "constructed",
               self |-> PriceBar_init("2023-01-01", open_price, close_price,
                                      high_price, low_price, 1000)]
  /\ bar_out' = [state |-> "results", bullish |-> {}, bearish |-> {}]
  /\ UNCHANGED <<query, query_out, pair, threads>>
  /\ UNCHANGED broker_vars

\* bar.is_bullish(): the value returned is kept in bar_out.
IsBullish ==
  /\ bar.state = "constructed"
  /\ bar_out' = [bar_out EXCEPT !.bullish = {is_bullish(bar.self)}]
  /\ UNCHANGED <<bar, query, query_out, pair, threads>>
  /\ UNCHANGED broker_vars

\* bar.is_bearish(): the value returned is kept in bar_out.
IsBearish ==
  /\ bar.state = "constructed"
  /\ bar_out' = [bar_out EXCEPT !.bearish = {is_bearish(bar.self)}]
  /\ UNCHANGED <<bar, query, query_out, pair, threads>>
  /\ UNCHANGED broker_vars

NextBar ==
  \/ NewPriceBar
  \/ IsBullish
  \/ IsBearish

SpecBar == Init /\ [][NextBar]_vars

(* ---- helpers of the properties ---- *)
Symbols == {upper(s) : s \in RawSymbols}

LastReceipt == receipts[Len(receipts)]

\* Signed cash effect of the submissions 1..n that ended filled, from the
\* receipts: BUY pays executed_price * executed_quantity, SELL receives it.
RECURSIVE CashEffect(_)
CashEffect(n) ==
  IF n = 0 THEN 0
  ELSE LET r == receipts[n] IN
    CashEffect(n - 1)
      + (IF r.status = "filled" /\ r.side = "BUY"
           THEN 0 - r.executed_price * r.executed_quantity
           ELSE IF r.status = "filled" /\ r.side = "SELL"
             THEN r.executed_price * r.executed_quantity
             ELSE 0)

\* Net quantity of symbol s over the submissions 1..n that ended filled.
RECURSIVE NetQuantity(_, _)
NetQuantity(s, n) ==
  IF n = 0 THEN 0
  ELSE LET r == receipts[n] IN
    NetQuantity(s, n - 1)
      + (IF r.status = "filled" /\ r.symbol = s /\ r.side = "BUY"
           THEN r.executed_quantity
           ELSE IF r.status = "filled" /\ r.symbol = s /\ r.side = "SELL"
             THEN 0 - r.executed_quantity
             ELSE 0)

(* ---- C1 ---- *)
\* C1: the ledger (cash_balance, positions) changes only in a submitOrder
\* call during which the submitted order's status goes from a non-filled
\* status to filled (hence at most once per order); execute() and cancel()
\* never change it.
C1_LedgerOnlyOnFillTransition ==
  [][/\ \A o \in OrderIds :
          SubmitOrder(o) /\ ledger' # ledger
            => orders[o].status # "filled" /\ orders'[o].status = "filled"
     /\ (\A o \in OrderIds : ~SubmitOrder(o)) => ledger' = ledger]_vars

(* ---- C2 ---- *)
\* C2: filled and cancelled are terminal: once an order's status is filled
\* it stays filled, and once it is cancelled it stays cancelled, whatever
\* execute(), cancel() or submitOrder() calls follow.
C2_TerminalStates ==
  [][\A o \in OrderIds :
       /\ orders[o].status = "filled" => orders'[o].status = "filled"
       /\ orders[o].status = "cancelled" => orders'[o].status = "cancelled"]_vars

C4_SubmitIsOneLedgerStep ==
  [][\A o \in OrderIds :
       SubmitOrder(o) =>
         LET order == orders'[o]
             amount == order.price * order.quantity
             held == positions_get(positions, order.symbol, 0)
             r == receipts'[Len(receipts')]
         IN
           /\ (order.status = "filled" /\ order.side = "BUY") =>
                /\ cash_balance' = cash_balance - amount
                /\ order.symbol \in DOMAIN positions'
                /\ positions'[order.symbol] = held + order.quantity
           /\ (order.status = "filled" /\ order.side = "SELL") =>
                /\ cash_balance' = cash_balance + amount
                /\ order.symbol \in DOMAIN positions'
                /\ positions'[order.symbol] = held - order.quantity
           /\ order.status # "filled" => ledger' = ledger
           /\ (/\ order.cls = "MarketOrder" /\ order.side = "BUY"
               /\ order_history = <<>> /\ cash_balance = 100000
               /\ positions = <<>> /\ current_market_price = 100) =>
                /\ cash_balance' = 100000 - 100 * order.quantity
                /\ positions'[order.symbol] = order.quantity
                /\ r.status = "filled"
                /\ r.executed_quantity = order.quantity]_vars

\* A MarketOrder BUY of 2 has been booked on the fresh broker.
C4_Witness ==
  /\ Len(receipts) = 1
  /\ orders[receipts[1].order_id].cls = "MarketOrder"
  /\ receipts[1].status = "filled" /\ receipts[1].side = "BUY"
  /\ receipts[1].executed_quantity = 2
  /\ cash_balance = 99800
  /\ positions[receipts[1].symbol] = 2

(* ---- C5 ---- *)
\* C5 as stated: submitting a LimitOrder whose limit no price it was
\* executed against has met (the broker's price included) leaves the ledger
\* unchanged and returns a receipt with executed_quantity 0, executed_price
\* null and status pending.
C5_UnmetLimitReceiptPending ==
  [][\A o \in OrderIds :
       (SubmitOrder(o) /\ orders[o].cls = "LimitOrder" /\ ~limit_met'[o]) =>
         LET r == receipts'[Len(receipts')] IN
           /\ ledger' = ledger
           /\ r.executed_quantity = 0
           /\ r.executed_price = None
           /\ r.status = "pending"]_vars

\* C5 amended: the same, with the receipt's status being the order's
\* unchanged status: pending, or cancelled when cancel() was called on the
\* order before the submission.
C5_UnmetLimitLeavesLedger ==
  [][\A o \in OrderIds :
       (SubmitOrder(o) /\ orders[o].cls = "LimitOrder" /\ ~limit_met'[o]) =>
         LET r == receipts'[Len(receipts')] IN
           /\ ledger' = ledger
           /\ r.executed_quantity = 0
           /\ r.executed_price = None
           /\ r.status \in {"pending", "cancelled"}
           /\ r.status = orders[o].status
           /\ orders'[o] = orders[o]]_vars

\* A cancelled LimitOrder whose limit was never met has been submitted.
C5_Witness ==
  /\ Len(receipts) >= 1
  /\ orders[LastReceipt.order_id].cls = "LimitOrder"
  /\ ~limit_met[LastReceipt.order_id]
  /\ LastReceipt.status = "cancelled"
  /\ cash_balance = 100000 /\ positions = <<>>

(* ---- C6 ---- *)
\* C6: execute(p) on a pending LimitOrder with limit L ends filled iff
\* p <= L for side BUY and iff p >= L for side SELL; when the condition
\* does not hold, execute changes no field of the order, which can be
\* executed again against a new price.
C6_LimitFillsIffMet ==
  [][\A o \in OrderIds, p \in Prices :
       (Execute(o, p) /\ orders[o].cls = "LimitOrder") =>
         LET L == orders[o].price IN
           /\ (orders[o].status = "pending" /\ orders[o].side = "BUY") =>
                (orders'[o].status = "filled" <=> p <= L)
           /\ (orders[o].status = "pending" /\ orders[o].side = "SELL") =>
                (orders'[o].status = "filled" <=> p >= L)
           /\ (orders[o].side = "BUY" /\ ~(p <= L)) => orders'[o] = orders[o]
           /\ (orders[o].side = "SELL" /\ ~(p >= L)) => orders'[o] = orders[o]
           /\ orders'[o].price = L]_vars

\* A LimitOrder that was executed without filling (its receipt says pending)
\* has been executed again and is filled.
C6_Witness ==
  \E i \in 1..Len(receipts) :
    /\ orders[receipts[i].order_id].cls = "LimitOrder"
    /\ receipts[i].status = "pending"
    /\ orders[receipts[i].order_id].status = "filled"
    /\ limit_met[receipts[i].order_id]

(* ---- C7 ---- *)
\* C7: after every MarketOrder.execute(p), called directly or by
\* submitOrder with the broker's price, the status is filled and the price
\* is p; executing a filled order again with the same price changes nothing.
C7_MarketExecuteFillsAtLatestPrice ==
  [][\A o \in OrderIds :
       /\ \A p \in Prices :
            (Execute(o, p) /\ orders[o].cls = "MarketOrder") =>
              /\ orders'[o].status = "filled"
              /\ orders'[o].price = p
              /\ (orders[o].status = "filled" /\ orders[o].price = p) =>
                   orders'[o] = orders[o]
       /\ (SubmitOrder(o) /\ orders[o].cls = "MarketOrder") =>
            /\ orders'[o].status = "filled"
            /\ orders'[o].price = current_market_price]_vars

\* A MarketOrder filled at 100 by submitOrder has been executed again at 101.
C7_Witness ==
  \E i \in 1..Len(receipts) :
    /\ orders[receipts[i].order_id].cls = "MarketOrder"
    /\ receipts[i].executed_price = 100
    /\ orders[receipts[i].order_id].price = 101
    /\ orders[receipts[i].order_id].status = "filled"

(* ---- C8 ---- *)
\* C8: cancel() takes a pending order to cancelled and changes no other
\* field; on a filled or cancelled order it changes nothing; it never
\* touches the broker's ledger or history.
C8_CancelOnlyFromPending ==
  [][\A o \in OrderIds :
       Cancel(o) =>
         /\ orders[o].status = "pending" =>
              orders'[o] = [orders[o] EXCEPT !.status = "cancelled"]
         /\ orders[o].status \in {"filled", "cancelled"} =>
              orders'[o] = orders[o]
         /\ ledger' = ledger
         /\ order_history' = order_history]_vars

\* An order that was still pending when submitted has since been cancelled.
C8_Witness ==
  \E i \in 1..Len(receipts) :
    /\ receipts[i].status = "pending"
    /\ orders[receipts[i].order_id].status = "cancelled"

(* ---- C9 ---- *)
\* C9: the receipt submitOrder returns agrees with the order as the call
\* leaves it: same status, symbol and side, original_quantity the order's
\* quantity, executed_quantity the quantity if filled and 0 otherwise,
\* executed_price the order's price if filled and null otherwise.
C9_ReceiptAgreesWithOrder ==
  [][\A o \in OrderIds :
       SubmitOrder(o) =>
         LET r == receipts'[Len(receipts')]
             order == orders'[o]
         IN
           /\ Len(receipts') = Len(receipts) + 1
           /\ r.order_id = o
           /\ r.status = order.status
           /\ r.symbol = order.symbol
           /\ r.side = order.side
           /\ r.original_quantity = order.quantity
           /\ r.executed_quantity =
                (IF order.status = "filled" THEN order.quantity ELSE 0)
           /\ r.executed_price =
                (IF order.status = "filled" THEN order.price ELSE None)]_vars

\* Receipts of an unfilled and of a filled submission have been returned.
C9_Witness ==
  /\ Len(receipts) = 2
  /\ receipts[1].status # "filled" /\ receipts[1].executed_price = None
  /\ receipts[1].executed_quantity = 0
  /\ receipts[2].status = "filled" /\ receipts[2].executed_price # None
  /\ receipts[2].executed_quantity = receipts[2].original_quantity

(* ---- C10 ---- *)
\* C10: a receipt is a snapshot: no later cancel(), execute() or submitOrder
\* call changes any field of a receipt already returned.
C10_ReceiptsAreSnapshots ==
  [][/\ Len(receipts') >= Len(receipts)
     /\ \A i \in 1..Len(receipts) : receipts'[i] = receipts[i]]_vars

\* An order was submitted pending, then cancelled and submitted again: its
\* two receipts differ, and the first still says pending.
C10_Witness ==
  /\ Len(receipts) = 2
  /\ receipts[1].order_id = receipts[2].order_id
  /\ receipts[1].status = "pending"
  /\ receipts[2].status = "cancelled"
  /\ orders[receipts[1].order_id].status = "cancelled"

(* ---- C11 ---- *)
\* C11: no execute(), cancel() or submitOrder() call on an order object the
\* module can construct (TradeOrder, MarketOrder, LimitOrder) raises:
\* every call completes, and submitOrder returns a receipt.
C11_NoCallRaises ==
  raised = FALSE

(* ---- C12 ---- *)
\* C12: constructing a MarketDataQuery fails with the validation error
\* whenever start_date is later than end_date, whatever the frequency and
\* the source, and fails whenever the frequency is not one of the 13
\* allowed codes; with parseable dates, start_date <= end_date and an
\* allowed frequency it succeeds for any source, and an unknown source is
\* rejected by fetch() only.
C12_ConstructionValidates ==
  /\ query_out.state = "init" =>
       LET a == query_out.args
           start == strptime(a.start_date)
           end == strptime(a.end_date)
           parsed == start # NoDate /\ end # NoDate
           later == parsed /\ toordinal(start) > toordinal(end)
           allowed == a.frequency \in
                        {"1m", "2m", "5m", "15m", "30m", "60m", "90m", "1h",
                         "1d", "5d", "1wk", "1mo", "3mo"}
       IN /\ later =>
               /\ query_out.raised = "Start date must be before end date"
               /\ query = Nothing
          /\ ~allowed => query_out.raised # "ok" /\ query = Nothing
          /\ (parsed /\ ~later /\ ~allowed) =>
               query_out.raised = "Frequency must be one of"
          /\ (parsed /\ ~later /\ allowed) =>
               /\ query_out.raised = "ok"
               /\ query.state = "constructed"
               /\ query.self.source = a.source
               /\ query.self.frequency = a.frequency
  /\ query_out.state = "fetch" =>
       (query_out.result.raised = "Unknown source"
          <=> query.self.source \notin {"test", "yahoo"})

\* A construction with start_date later than end_date, a frequency that is
\* not allowed and an unknown source has failed on the dates.
C12_Witness ==
  /\ query_out.state = "init"
  /\ query_out.args.start_date = "2023-01-05"
  /\ query_out.args.end_date = "2023-01-01"
  /\ query_out.args.frequency = "yearly"
  /\ query_out.args.source = "bloomberg"
  /\ query_out.raised = "Start date must be before end date"

(* ---- C13 ---- *)
\* C13: fetch() of a constructed query with source "test" returns a table
\* of at least one row (start_date alone when the calendar sequence of the
\* frequency is empty) with price[i] = 100 + i*0.5 (price2 = 200 + i), so
\* price[0] = 100 and the prices increase strictly; fetching again returns
\* the same table, and no fetch changes a field of the query.  2023-01-01
\* to 2023-01-05 at 1d gives 5 rows ending at 102, and 2023-01-01 to
\* 2023-01-31 at 1wk has 5 dates.
C13_TestSourceTable ==
  [][(Fetch /\ query.self.source = "test") =>
       LET q == query.self
           df == query_out'.result.df
           ranged == date_range(q.start_date, q.end_date, freq_map(q.frequency))
       IN /\ query_out'.result.raised = "ok"
          /\ Len(df) >= 1
          /\ Len(ranged) = 0 =>
               df = <<[date |-> 1440 * toordinal(q.start_date), price2 |-> 200]>>
          /\ df[1].price2 = 200
          /\ \A i \in 1..Len(df) : df[i].price2 = 200 + (i - 1)
          /\ \A i \in 1..(Len(df) - 1) :
               df[i].price2 < df[i + 1].price2 /\ df[i].date < df[i + 1].date
          /\ (/\ q.start_date = strptime("2023-01-01")
              /\ q.end_date = strptime("2023-01-05")
              /\ q.frequency = "1d") =>
               Len(df) = 5 /\ df[5].price2 = 204
          /\ Len(date_range(strptime("2023-01-01"), strptime("2023-01-31"),
                            freq_map("1wk"))) = 5
          /\ query' = query
          /\ query_out.state = "fetch" => query_out' = query_out]_vars

\* A weekly query from Monday 2023-01-02 to Thursday 2023-01-05, a range
\* without a Sunday, has been fetched: the table is the start date alone.
C13_Witness ==
  /\ query_out.state = "fetch"
  /\ query.self.source = "test"
  /\ query.self.frequency = "1wk"
  /\ query.self.start_date = strptime("2023-01-02")
  /\ query.self.end_date = strptime("2023-01-05")
  /\ Len(query_out.result.df) = 1
  /\ query_out.result.df[1] = [date |-> 1440, price2 |-> 200]

(* ---- C14 ---- *)
\* C14: for a PriceBar with numbers as open and close, is_bullish() and
\* is_bearish() are never both true, both are false exactly when
\* open = close, and exactly one is true otherwise.
C14_BullishBearishExclusive ==
  bar_out.state = "results" =>
    \A bullish \in bar_out.bullish, bearish \in bar_out.bearish :
      /\ ~(bullish /\ bearish)
      /\ (~bullish /\ ~bearish) <=> bar.self.open = bar.self.close
      /\ bar.self.open # bar.self.close => bullish # bearish

\* Both predicates have been called on a bar with open = close and returned
\* false.
C14_Witness ==
  /\ bar_out.state = "results"
  /\ bar.self.open = bar.self.close
  /\ bar_out.bullish = {FALSE}
  /\ bar_out.bearish = {FALSE}

(* ---- C15 ---- *)
\* C15: a LimitOrder that fills in submitOrder (BUY with limit L >= the
\* broker's price, SELL with L <= it) is booked at its limit price L, not
\* at the broker's price: execute leaves order.price at L, cash_balance
\* moves by L * quantity and the receipt's executed_price is L.
C15_LimitBookedAtLimitPrice ==
  [][\A o \in OrderIds :
       (/\ SubmitOrder(o)
        /\ orders[o].cls = "LimitOrder"
        /\ LimitMet(orders[o], current_market_price)) =>
         LET L == orders[o].price
             q == orders[o].quantity
             r == receipts'[Len(receipts')]
         IN /\ orders'[o].status = "filled"
            /\ orders'[o].price = L
            /\ r.executed_price = L
            /\ orders[o].side = "BUY" => cash_balance' = cash_balance - L * q
            /\ orders[o].side = "SELL" => cash_balance' = cash_balance + L * q]_vars

\* A BUY LimitOrder with limit 101 has been filled by submitOrder at the
\* broker's price 100 and booked at 101.
C15_Witness ==
  /\ Len(receipts) = 1
  /\ orders[receipts[1].order_id].cls = "LimitOrder"
  /\ receipts[1].side = "BUY"
  /\ receipts[1].status = "filled"
  /\ receipts[1].executed_price = 101
  /\ current_market_price = 100
  /\ cash_balance = 100000 - 101 * receipts[1].executed_quantity

(* ---- C16 ---- *)
RECURSIVE SumPositions(_, _)
SumPositions(pos, keys) ==
  IF keys = {} THEN 0
  ELSE LET k == CHOOSE x \in keys : TRUE
       IN pos[k] + SumPositions(pos, keys \ {k})

\* C16: while only distinct, previously unexecuted BUY and SELL
\* MarketOrders are submitted to a fresh broker, cash_balance plus the
\* positions valued at current_market_price stays 100000.
C16_MarkToMarketConserved ==
  cash_balance + current_market_price * SumPositions(positions, DOMAIN positions)
    = 100000

\* A BUY of 2 of one symbol and a SELL of 1 of another have been booked.
C16_Witness ==
  /\ Len(receipts) = 2
  /\ receipts[1].side = "BUY" /\ receipts[1].executed_quantity = 2
  /\ receipts[2].side = "SELL" /\ receipts[2].executed_quantity = 1
  /\ receipts[1].symbol # receipts[2].symbol
  /\ positions[receipts[1].symbol] = 2
  /\ positions[receipts[2].symbol] = 0 - 1
  /\ cash_balance = 99900

(* ---- C18 ---- *)
\* C18: after any sequence of submitOrder calls on a fresh broker a symbol
\* is a key of positions exactly when some submission for that upper-cased
\* symbol ended filled with side BUY or SELL; no step removes a key, and a
\* submitOrder for one symbol leaves the position of every other symbol as
\* it was.
C18_PositionKeys ==
  [][/\ DOMAIN positions' \subseteq Symbols
     /\ \A s \in Symbols :
          s \in DOMAIN positions' <=>
            \E i \in 1..Len(receipts') :
              /\ receipts'[i].symbol = s
              /\ receipts'[i].status = "filled"
              /\ receipts'[i].side \in {"BUY", "SELL"}
     /\ DOMAIN positions \subseteq DOMAIN positions'
     /\ \A o \in OrderIds :
          SubmitOrder(o) =>
            \A t \in DOMAIN positions :
              t # orders[o].symbol => positions'[t] = positions[t]]_vars

\* A BUY and a SELL of the same quantity of AAPL were booked: the key AAPL
\* stays with net quantity 0, and MSFT, never filled, is no key.
C18_Witness ==
  /\ Len(receipts) = 2
  /\ receipts[1].side = "BUY" /\ receipts[1].status = "filled"
  /\ receipts[2].side = "SELL" /\ receipts[2].status = "filled"
  /\ "AAPL" \in DOMAIN positions
  /\ positions["AAPL"] = 0
  /\ "MSFT" \notin DOMAIN positions

(* ---- C17 ---- *)
\* C17: two brokers with the same current_market_price and different
\* cash_balance and positions answer equal orders with receipts of the same
\* status, executed_quantity and executed_price, and leave the two orders
\* equal: nothing is rejected for lack of funds or holdings.
C17_FillIndependentOfLedger ==
  pair.state = "pair" =>
    /\ pair.A.current_market_price = pair.B.current_market_price
    /\ <<pair.A.cash_balance, pair.A.positions>>
         # <<pair.B.cash_balance, pair.B.positions>>
    /\ pair.order.state = "made" => pair.order.a = pair.order.b
    /\ pair.last.state = "returned" =>
         /\ pair.last.a.status = pair.last.b.status
         /\ pair.last.a.executed_quantity = pair.last.b.executed_quantity
         /\ pair.last.a.executed_price = pair.last.b.executed_price
         /\ pair.last.a.status \in {"pending", "filled", "cancelled"}

\* Both brokers filled a BUY that B could not pay: B's cash_balance is
\* negative, and a position of B is negative after an earlier SELL.
C17_Witness ==
  /\ pair.state = "pair"
  /\ pair.last.state = "returned"
  /\ pair.last.a.status = "filled"
  /\ pair.last.b.status = "filled"
  /\ pair.last.b.side = "BUY"
  /\ pair.B.cash_balance < 0
  /\ \E s \in DOMAIN pair.B.positions : pair.B.positions[s] < 0
  /\ pair.A.cash_balance > 0

(* ---- C19 ---- *)
\* The ledger after the two calls run one after the other; both orders of
\* the calls give the same ledger.
SerialLedger ==
  LET o1 == execute(orders[1], current_market_price)
      o2 == execute(orders[2], current_market_price)
  IN <<submitOrder_cash(submitOrder_cash(100000, o1), o2),
       submitOrder_positions(submitOrder_positions(<<>>, o1), o2)>>

ThreadsDone ==
  /\ threads.state = "running"
  /\ \A t \in Threads : threads.pc[t] = "done"

\* C19: submitOrder holds no lock. When both calls have returned,
\* order_history and the receipts are complete, and the ledger equals the
\* ledger of the serial orders exactly when no call stored cash_balance or
\* positions[symbol] over a value another call had changed since the load:
\* an interleaving between a load and its store loses an update.
C19_LostUpdateIffInterleaved ==
  ThreadsDone =>
    /\ Len(order_history) = 2
    /\ Len(receipts) = 2
    /\ (ledger = SerialLedger) <=> ~threads.stale

\* Both calls returned filled receipts for BUY orders, and cash_balance
\* holds the cost of only one of them: a ledger of neither serial order.
C19_Witness ==
  /\ ThreadsDone
  /\ \A i \in 1..2 : receipts[i].status = "filled" /\ receipts[i].side = "BUY"
  /\ cash_balance # SerialLedger[1]
  /\ cash_balance = 100000 - orders[1].price * orders[1].quantity
  /\ order_history = <<1, 2>>

====
